---- MODULE Spec2Model ----
(***************************************************************************)
(* Model of the edge discovery lambdas of edge_ha:                         *)
(*   backend_apis/master_edge_details.py   (the Aggregator)                *)
(*   backend_apis/get_localzones_details.py (the Zone Collector)           *)
(*   backend_apis/get_outposts_details.py   (the Extension Collector)      *)
(*   bedrock_apis/get_parent_az.py          (the Parent-Zone Lookup)       *)
(*                                                                         *)
(* A Python str that the code parses (an instance type such as             *)
(* "c6i.4xlarge") is a sequence of one-character strings, so that split,   *)
(* startswith and the order used by sorted() are computed, not assumed.    *)
(* Names the code only copies and compares for equality (zone names,       *)
(* outpost ids, availability zones) are TLA+ strings.                      *)
(***************************************************************************)
EXTENDS Integers, Sequences, FiniteSets, TLC

\* ------------------------------------------------------------------------
\* Bounds of the model
\* ------------------------------------------------------------------------
\* longest instance type string drawn as input of extract_instance_families
MaxIdLen == 4
\* longest instance type list drawn as input of extract_instance_families
MaxTypes == 2

\* ------------------------------------------------------------------------
\* Python values
\* ------------------------------------------------------------------------
\* Python None where a str that the code parses is expected. TLC cannot
\* compare a sequence with a string, so None is the one sequence that is no
\* sequence of characters.
None == <<"None">>

\* the characters instance types are drawn from: the three family letters,
\* the separator, and two digits (a digit is also a first character that is
\* no family letter)
Alphabet == {"c", "m", "r", ".", "1", "2"}

\* ord(ch) for the characters of Alphabet
Ord == [ch \in Alphabet |->
          CASE ch = "." -> 46
            [] ch = "1" -> 49
            [] ch = "2" -> 50
            [] ch = "c" -> 99
            [] ch = "m" -> 109
            [] ch = "r" -> 114]

\* the str values of length at most n
Strings(n) == UNION {[1..k -> Alphabet] : k \in 0..n}

\* the sequences of length at most n over S
SeqUpTo(S, n) == UNION {[1..k -> S] : k \in 0..n}

\* Python truthiness of a str-or-None value: `not x`
IsFalsy(x) == x = None \/ x = <<>>

\* str.split(sep) for a one-character separator
RECURSIVE split(_, _)
split(s, sep) ==
    IF \A i \in 1..Len(s) : s[i] # sep
    THEN <<s>>
    ELSE LET i == CHOOSE j \in 1..Len(s) :
                     s[j] = sep /\ \A k \in 1..(j-1) : s[k] # sep
         IN  <<SubSeq(s, 1, i-1)>> \o split(SubSeq(s, i+1, Len(s)), sep)

\* str.startswith(ch) for a one-character prefix
startswith(s, ch) == Len(s) >= 1 /\ s[1] = ch

\* a < b for two str values: Python compares code point by code point, and
\* a proper prefix is smaller
RECURSIVE StrLess(_, _)
StrLess(a, b) ==
    IF b = <<>> THEN FALSE
    ELSE IF a = <<>> THEN TRUE
    ELSE IF Ord[Head(a)] # Ord[Head(b)] THEN Ord[Head(a)] < Ord[Head(b)]
    ELSE StrLess(Tail(a), Tail(b))

\* sorted() with a natural (numeric-aware) key: a shorter token first
RECURSIVE sorted_natural(_)
sorted_natural(S) ==
    IF S = {} THEN <<>>
    ELSE LET least == CHOOSE x \in S : \A y \in S \ {x} :
                          \/ Len(x) < Len(y)
                          \/ Len(x) = Len(y) /\ StrLess(x, y)
         IN  <<least>> \o sorted_natural(S \ {least})

\* sorted(list(S)) for a set of str
RECURSIVE sorted(_)
sorted(S) ==
    IF S = {} THEN <<>>
    ELSE LET least == CHOOSE x \in S : \A y \in S \ {x} : StrLess(x, y)
         IN  <<least>> \o sorted(S \ {least})

\* ------------------------------------------------------------------------
\* master_edge_details.extract_instance_families
\* ------------------------------------------------------------------------
\* the loop body with the last elif written as else
ClassifyOne_else(fam, instance_type) ==
    IF IsFalsy(instance_type) THEN fam
    ELSE LET parts == split(instance_type, ".")
         IN  IF Len(parts) >= 2
             THEN IF startswith(parts[1], "c")
                  THEN [fam EXCEPT !.c = @ \cup {parts[2]}]
                  ELSE IF startswith(parts[1], "m")
                  THEN [fam EXCEPT !.m = @ \cup {parts[2]}]
                  ELSE [fam EXCEPT !.r = @ \cup {parts[2]}]
             ELSE fam

\* one iteration of the loop over instance_types; fam holds the three sets
ClassifyOne(fam, instance_type) ==
    IF IsFalsy(instance_type) THEN fam
    ELSE LET parts == split(instance_type, ".")
         IN  IF Len(parts) >= 2
             THEN LET family_part == parts[1]
                      size == parts[2]
                  IN  IF startswith(family_part, "c")
                      THEN [fam EXCEPT !.c = @ \cup {size}]
                      ELSE IF startswith(family_part, "m")
                      THEN [fam EXCEPT !.m = @ \cup {size}]
                      ELSE IF startswith(family_part, "r")
                      THEN [fam EXCEPT !.r = @ \cup {size}]
                      ELSE fam
             ELSE fam

\* the loop: the sets after the first n elements of instance_types
RECURSIVE FamilySets(_, _)
FamilySets(instance_types, n) ==
    IF n = 0 THEN [c |-> {}, m |-> {}, r |-> {}]
    ELSE ClassifyOne(FamilySets(instance_types, n-1), instance_types[n])

\* the returned triple (c_family, m_family, r_family)
extract_instance_families(instance_types) ==
    LET fam == FamilySets(instance_types, Len(instance_types))
    IN  <<sorted(fam.c), sorted(fam.m), sorted(fam.r)>>

\* ------------------------------------------------------------------------
\* Python dicts and lists of dicts
\* ------------------------------------------------------------------------
\* A dict with fixed keys is a record; {} is the record with no field.
EmptyDict == [k \in {} |-> 0]

\* Python None where a dict is expected
NoneDict == [PyNone |-> TRUE]

\* Python None where a list of dicts is expected
NoneList == <<[PyNone |-> TRUE]>>

\* Python None where a name (a str the code never parses) is expected
NoneName == "None"

\* d.get(key, default)
Get(d, key, default) == IF key \in DOMAIN d THEN d[key] ELSE default

\* A dict with computed keys (one entry per zone, per outpost) is the
\* sequence of its items [key, value] in insertion order, which is the order
\* of .items() and of the JSON document the dict is sent as.

\* ------------------------------------------------------------------------
\* Bounds and data of the provider the collectors query
\* ------------------------------------------------------------------------
\* most instance types offered by one zone or one asset
MaxCaps == 1
\* most assets of one outpost
MaxAssets == 2

\* instance types the provider offers
OfferedTypes == { <<"c", ".", "2">>, <<"m", ".", "1">> }

\* the local zones of the region, and what describe_availability_zones
\* reports for each
ZoneNames == {"us-west-2-lax-1a", "us-west-2-lax-1b"}
ZoneIdOf == [z \in ZoneNames |->
               IF z = "us-west-2-lax-1a" THEN "usw2-lax1-az1" ELSE "usw2-lax1-az2"]
ParentZoneIdOf == [z \in ZoneNames |->
               IF z = "us-west-2-lax-1a" THEN "usw2-az1" ELSE "usw2-az2"]

\* the outposts of the region, and what list_outposts reports for each
OutpostIds == {"op-1", "op-2"}
AvailabilityZoneOf == [o \in OutpostIds |->
               IF o = "op-1" THEN "us-west-2a" ELSE "us-west-2b"]
AvailabilityZoneIdOf == [o \in OutpostIds |->
               IF o = "op-1" THEN "usw2-az1" ELSE "usw2-az2"]

\* the sequences without repetition over S
Orderings(S) == {q \in SeqUpTo(S, Cardinality(S)) :
                    \A i, j \in 1..Len(q) : i # j => q[i] # q[j]}

\* the InstanceTypeOfferings of describe_instance_type_offerings
Offerings == SeqUpTo([InstanceType : OfferedTypes], MaxCaps)

\* the AvailabilityZones of describe_availability_zones for the zones names,
\* in that order, where describe_instance_type_offerings reports offered[i]
\* for zone i
ProviderZones(names, offered) ==
    [i \in 1..Len(names) |->
        [ZoneName |-> names[i],
         ZoneId |-> ZoneIdOf[names[i]],
         RegionName |-> "us-west-2",
         ParentZoneId |-> ParentZoneIdOf[names[i]],
         InstanceTypeOfferings |-> offered[i]]]

\* the Assets of list_assets: ComputeAttributes may lack
\* InstanceTypeCapacities, and .get() then yields None
ProviderAssets ==
    SeqUpTo([InstanceTypeCapacities : Offerings \cup {NoneList}], MaxAssets)

\* the Outposts of list_outposts for the outposts ids, in that order, where
\* list_assets reports assets[i] for outpost i
ProviderOutposts(ids, assets) ==
    [i \in 1..Len(ids) |->
        [OutpostId |-> ids[i],
         AvailabilityZone |-> AvailabilityZoneOf[ids[i]],
         AvailabilityZoneId |-> AvailabilityZoneIdOf[ids[i]],
         SupportedHardwareType |-> "RACK",
         Assets |-> assets[i]]]

\* ------------------------------------------------------------------------
\* The DynamoDB table 'discovery': a function from the edge_id values that
\* have an item to that item
\* ------------------------------------------------------------------------
\* table.put_item(Item=item), accepted by the store
put_item(table, item) ==
    [k \in DOMAIN table \cup {item.edge_id} |->
        IF k = item.edge_id THEN item ELSE table[k]]

\* table.query(KeyConditionExpression=Key('edge_id').eq(edge_id))['Items']
query(table, edge_id) ==
    IF edge_id \in DOMAIN table THEN <<table[edge_id]>> ELSE <<>>

\* the loop with put_item wrapped in try/except: a rejected item is skipped
RECURSIVE put_loop_continue(_, _, _, _)
put_loop_continue(table, items, n, reject) ==
    IF n = 0
    THEN [table |-> table, submitted |-> <<>>, raised |-> FALSE,
          records_written |-> 0]
    ELSE LET before == put_loop_continue(table, items, n - 1, reject)
         IN  IF n = reject
             THEN [before EXCEPT !.submitted = Append(@, items[n].edge_id)]
             ELSE [table |-> put_item(before.table, items[n]),
                   submitted |-> Append(before.submitted, items[n].edge_id),
                   raised |-> FALSE,
                   records_written |-> before.records_written + 1]

\* the loop of write_to_dynamo over the first n items, where the store
\* rejects the put_item of item number reject (0: it rejects none) with an
\* exception that nothing in write_to_dynamo catches. submitted lists the
\* edge_id of every put_item call made.
RECURSIVE put_loop(_, _, _, _)
put_loop(table, items, n, reject) ==
    IF n = 0
    THEN [table |-> table, submitted |-> <<>>, raised |-> FALSE,
          records_written |-> 0]
    ELSE LET before == put_loop(table, items, n - 1, reject)
         IN  IF before.raised THEN before
             ELSE IF n = reject
             THEN [before EXCEPT
                     !.submitted = Append(@, items[n].edge_id),
                     !.raised = TRUE]
             ELSE [table |-> put_item(before.table, items[n]),
                   submitted |-> Append(before.submitted, items[n].edge_id),
                   raised |-> FALSE,
                   records_written |-> before.records_written + 1]

\* ------------------------------------------------------------------------
\* get_localzones_details.py
\* ------------------------------------------------------------------------
\* get_local_zones_instance_types: the result dict, one item per zone
\* (the GroupName, NetworkBorderGroup and OptInStatus fields, which no
\* reader of the dict uses, are left out)
get_local_zones_instance_types(zones) ==
    [i \in 1..Len(zones) |->
        [key |-> zones[i].ZoneName,
         value |-> [ZoneId |-> zones[i].ZoneId,
                    RegionName |-> zones[i].RegionName,
                    ZoneName |-> zones[i].ZoneName,
                    ParentAZ |-> zones[i].ParentZoneId,
                    InstanceTypes |->
                        [j \in 1..Len(zones[i].InstanceTypeOfferings) |->
                            zones[i].InstanceTypeOfferings[j].InstanceType]]]]

\* the item write_to_dynamo builds for one zone
localzones_item(zone_data) ==
    [edge_id |-> zone_data.ZoneId,
     edge_type |-> "Public_LocalZone",
     parent_az |-> zone_data.ParentAZ,
     available_families |->
        [j \in 1..Len(zone_data.InstanceTypes) |->
            [key |-> zone_data.InstanceTypes[j],
             value |-> zone_data.InstanceTypes[j]]]]

\* write_to_dynamo of the Zone Collector
localzones_write_to_dynamo(table, local_zones_data, reject) ==
    put_loop(table,
             [i \in 1..Len(local_zones_data) |->
                 localzones_item(local_zones_data[i].value)],
             Len(local_zones_data), reject)

\* lambda_handler of the Zone Collector: api_fails says that a call of the
\* provider raises. The result holds the returned payload, the table, and
\* the record of the write_to_dynamo call (called |-> FALSE: there was none).
localzones_lambda_handler(event, table, zones, api_fails, reject) ==
    LET region == Get(event, "region", "us-east-1")
        local_zones_info == get_local_zones_instance_types(zones)
        w == localzones_write_to_dynamo(table, local_zones_info, reject)
    IN  IF api_fails
        THEN [payload |-> [statusCode |-> 500, body |-> [error |-> "provider"]],
              table |-> table,
              write |-> [called |-> FALSE]]
        ELSE IF w.raised
        THEN [payload |-> [statusCode |-> 500, body |-> [error |-> "put_item"]],
              table |-> w.table,
              write |-> [called |-> TRUE,
                         batch |-> [i \in 1..Len(local_zones_info) |->
                                       local_zones_info[i].value.ZoneId],
                         reject |-> reject,
                         submitted |-> w.submitted,
                         raised |-> TRUE,
                         records_written |-> w.records_written]]
        ELSE [payload |-> [statusCode |-> 200,
                           body |-> [region |-> region,
                                     localZones |-> local_zones_info,
                                     dynamo_result |->
                                        [records_written |-> w.records_written]]],
              table |-> w.table,
              write |-> [called |-> TRUE,
                         batch |-> [i \in 1..Len(local_zones_info) |->
                                       local_zones_info[i].value.ZoneId],
                         reject |-> reject,
                         submitted |-> w.submitted,
                         raised |-> FALSE,
                         records_written |-> w.records_written]]

\* ------------------------------------------------------------------------
\* get_outposts_details.py
\* ------------------------------------------------------------------------
\* get_outposts_info: the result dict, one item per outpost (of an asset
\* only the InstanceType field is kept, of an outpost the fields a reader of
\* the dict uses)
get_outposts_info(outposts) ==
    [i \in 1..Len(outposts) |->
        [key |-> outposts[i].OutpostId,
         value |-> [AvailabilityZone |-> outposts[i].AvailabilityZone,
                    AvailabilityZoneId |-> outposts[i].AvailabilityZoneId,
                    SupportedHardwareType |-> outposts[i].SupportedHardwareType,
                    Servers |->
                        [j \in 1..Len(outposts[i].Assets) |->
                            [InstanceType |->
                                outposts[i].Assets[j].InstanceTypeCapacities]]]]]

\* the item write_to_dynamo builds for one outpost
outposts_item(outpost_id, outpost_data) ==
    [edge_id |-> outpost_id,
     edge_type |-> outpost_data.SupportedHardwareType,
     parent_az |-> outpost_data.AvailabilityZoneId,
     available_families |-> outpost_data.Servers]

\* write_to_dynamo of the Extension Collector
outposts_write_to_dynamo(table, outposts_data, reject) ==
    put_loop(table,
             [i \in 1..Len(outposts_data) |->
                 outposts_item(outposts_data[i].key, outposts_data[i].value)],
             Len(outposts_data), reject)

\* lambda_handler of the Extension Collector
outposts_lambda_handler(event, table, outposts, api_fails, reject) ==
    LET region == Get(event, "region", "us-east-1")
        outposts_info == get_outposts_info(outposts)
        w == outposts_write_to_dynamo(table, outposts_info, reject)
    IN  IF api_fails
        THEN [payload |-> [statusCode |-> 500, body |-> [error |-> "provider"]],
              table |-> table,
              write |-> [called |-> FALSE]]
        ELSE IF w.raised
        THEN [payload |-> [statusCode |-> 500, body |-> [error |-> "put_item"]],
              table |-> w.table,
              write |-> [called |-> TRUE,
                         batch |-> [i \in 1..Len(outposts_info) |->
                                       outposts_info[i].key],
                         reject |-> reject,
                         submitted |-> w.submitted,
                         raised |-> TRUE,
                         records_written |-> w.records_written]]
        ELSE [payload |-> [statusCode |-> 200,
                           body |-> [region |-> region,
                                     outposts |-> outposts_info,
                                     dynamo_result |->
                                        [records_written |-> w.records_written]]],
              table |-> w.table,
              write |-> [called |-> TRUE,
                         batch |-> [i \in 1..Len(outposts_info) |->
                                       outposts_info[i].key],
                         reject |-> reject,
                         submitted |-> w.submitted,
                         raised |-> FALSE,
                         records_written |-> w.records_written]]

\* ------------------------------------------------------------------------
\* master_edge_details.py
\* ------------------------------------------------------------------------
\* results['errors'].append(message), with message inserted in front
record_error_front(results, message) ==
    [results EXCEPT !.errors = <<message>> \o @]

\* results['errors'].append(message)
record_error(results, message) ==
    [results EXCEPT !.errors = Append(@, message)]

\* the loop over lz_data['localZones'].items() with each entry inserted in
\* front of the list
public_local_zones_front(localZones) ==
    [i \in 1..Len(localZones) |->
        LET item == localZones[Len(localZones) + 1 - i]
            families == extract_instance_families(
                            Get(item.value, "InstanceTypes", <<>>))
        IN  [edge_id |-> item.key,
             parent_region |-> Get(item.value, "RegionName", ""),
             parent_az |-> Get(item.value, "ParentAZ", ""),
             c_family |-> families[1],
             m_family |-> families[2],
             r_family |-> families[3]]]

\* the loop over lz_data['localZones'].items(): one local_zone dict is
\* appended per item
public_local_zones(localZones) ==
    [i \in 1..Len(localZones) |->
        LET zone_name == localZones[i].key
            zone_info == localZones[i].value
            families == extract_instance_families(
                            Get(zone_info, "InstanceTypes", <<>>))
        IN  [edge_id |-> zone_name,
             parent_region |-> Get(zone_info, "RegionName", ""),
             parent_az |-> Get(zone_info, "ParentAZ", ""),
             c_family |-> families[1],
             m_family |-> families[2],
             r_family |-> families[3]]]

\* the two loops that fill all_instance_types, over the first n servers:
\* iterating a server's InstanceType that is None raises TypeError
RECURSIVE servers_instance_types(_, _)
servers_instance_types(servers, n) ==
    IF n = 0 THEN [raised |-> FALSE, value |-> <<>>]
    ELSE LET before == servers_instance_types(servers, n - 1)
             caps == Get(servers[n], "InstanceType", <<>>)
         IN  IF before.raised THEN before
             ELSE IF caps = NoneList THEN [raised |-> TRUE, value |-> <<>>]
             ELSE [raised |-> FALSE,
                   value |-> before.value \o
                             [j \in 1..Len(caps) |-> caps[j].InstanceType]]

\* all_instance_types taken from the first server only
all_instance_types_first(outpost_info) ==
    LET servers == Get(outpost_info, "Servers", <<>>)
    IN  servers_instance_types(servers, IF servers = <<>> THEN 0 ELSE 1)

\* all_instance_types of one outpost
all_instance_types(outpost_info) ==
    LET servers == Get(outpost_info, "Servers", <<>>)
    IN  servers_instance_types(servers, Len(servers))

\* parse_edge_discovery_data: [raised, value]; value is the returned dict
parse_edge_discovery_data(results) ==
    LET lz == results.localzones
        op == results.outposts
        zones ==
            IF lz # NoneDict /\ "body" \in DOMAIN lz
               /\ "localZones" \in DOMAIN lz.body
            THEN public_local_zones(lz.body.localZones)
            ELSE <<>>
        has_outpost ==
            /\ op # NoneDict /\ "body" \in DOMAIN op
            /\ "outposts" \in DOMAIN op.body
            /\ op.body.outposts # <<>>
        \* the loop takes the first outpost and breaks
        first == op.body.outposts[1]
        types == all_instance_types(first.value)
        families == extract_instance_families(types.value)
    IN  IF has_outpost /\ types.raised
        THEN [raised |-> TRUE, value |-> EmptyDict]
        ELSE [raised |-> FALSE,
              value |->
                [answer |->
                    [public_local_zones |-> zones,
                     outposts |->
                        IF has_outpost
                        THEN [edge_id |-> first.key,
                              parent_region |-> Get(op.body, "region", ""),
                              parent_az |-> Get(first.value, "AvailabilityZone", ""),
                              c_family |-> families[1],
                              m_family |-> families[2],
                              r_family |-> families[3]]
                        ELSE EmptyDict]]]

\* the outcomes of lambda_client.invoke and of reading its Payload, besides
\* the StatusCode 200 with which the collector's return value comes back
InvokeFailures == {"ClientError", "Exception", "StatusCode"}

\* the tail of lambda_handler from "Determine overall success" on:
\* [raised, statusCode, body]; body is the document json.dumps is given
respond(results) ==
    LET success == Len(results.errors) = 0
        formatted_response == parse_edge_discovery_data(results)
    IN  IF success
        THEN IF formatted_response.raised
             THEN [raised |-> TRUE, statusCode |-> 0, body |-> EmptyDict]
             ELSE [raised |-> FALSE, statusCode |-> 200,
                   body |-> formatted_response.value]
        ELSE [raised |-> FALSE, statusCode |-> 500,
              body |-> [success |-> FALSE,
                        errors |-> results.errors,
                        message |-> "Edge discovery completed with errors"]]

\* ------------------------------------------------------------------------
\* get_parent_az.py
\* ------------------------------------------------------------------------
\* most parameters of a lookup event
MaxParams == 3

\* get_parent_az: [raised, value]; it raises when the query does
get_parent_az(table_, edge_id, query_fails) ==
    LET items == query(table_, edge_id)
    IN  IF query_fails
        THEN [raised |-> TRUE, value |-> EmptyDict]
        ELSE IF items = <<>>
        THEN [raised |-> FALSE,
              value |-> [edge_id |-> edge_id,
                         parent_az |-> NoneName,
                         found |-> FALSE]]
        ELSE [raised |-> FALSE,
              value |-> [edge_id |-> edge_id,
                         parent_az |-> Get(items[1], "parent_az", NoneName),
                         found |-> TRUE]]

\* `not x` for a name or None
IsFalsyName(x) == x = NoneName \/ x = ""

\* lambda_handler of the lookup: [raised, value]. failing is the number of
\* the query the store fails (0: none). The body json.dumps is given is kept
\* as the document. The event has the agent, actionGroup and function keys
\* of every event of the agent runtime.
lookup_lambda_handler(lookup_event, table_, failing) ==
    LET parameters == Get(lookup_event, "parameters", <<>>)
    IN  IF Len(parameters) < 2
        THEN \* parameters[0] or parameters[1] raises IndexError
             [raised |-> TRUE, value |-> EmptyDict]
        ELSE
        LET edge_id_1 == Get(parameters[1], "value", NoneName)
            edge_id_2 == Get(parameters[2], "value", NoneName)
            result_1 == get_parent_az(table_, edge_id_1, failing = 1)
            result_2 == get_parent_az(table_, edge_id_2, failing = 2)
        IN  IF IsFalsyName(edge_id_1) \/ IsFalsyName(edge_id_2)
            THEN [raised |-> FALSE,
                  value |-> [statusCode |-> 400,
                             body |-> [error |->
                                "Missing required parameters: edge_id_1, edge_id_2"]]]
            ELSE IF result_1.raised \/ result_2.raised
            THEN [raised |-> FALSE,
                  value |-> [statusCode |-> 500, body |-> [error |-> "query"]]]
            ELSE [raised |-> FALSE,
                  value |->
                    [messageVersion |-> "1.0",
                     response |->
                        [actionGroup |-> lookup_event.actionGroup,
                         function |-> lookup_event.function,
                         functionResponse |->
                            [responseBody |->
                                [TEXT |->
                                    [body |-> [edge_id_1 |-> result_1.value,
                                               edge_id_2 |-> result_2.value]]]]]]]

\* ------------------------------------------------------------------------
\* State
\* ------------------------------------------------------------------------
VARIABLES
    cl_pc,          \* classifier call: "call" before, "returned" after
    cl_input,       \* the list passed to extract_instance_families
    cl_result,      \* the triple it returned (<<>> before the return)
    pc,             \* where the Aggregator's lambda_handler is
    event,          \* the event of the aggregate request
    results,        \* lambda_handler's results dict
    invoked,        \* FunctionName of every lambda_client.invoke call so far
    response,       \* what lambda_handler returned, or that it raised
    table,          \* the DynamoDB table 'discovery'
    write,          \* the last write_to_dynamo call of a collector
    lk_pc,          \* lookup request: "request" before, "responded" after
    lk_event,       \* the event of the lookup request
    lk_failing,     \* the number of the query the store fails (0: none)
    lk_response     \* what the lookup's lambda_handler returned or raised

cl_vars == <<cl_pc, cl_input, cl_result>>
agg_vars == <<pc, event, results, invoked, response, write>>
lk_vars == <<lk_pc, lk_event, lk_failing, lk_response>>
vars == <<cl_pc, cl_input, cl_result,
          pc, event, results, invoked, response, write, table,
          lk_pc, lk_event, lk_failing, lk_response>>

\* the parts of the state a specification leaves alone
ClassifierIdle == cl_pc = "idle" /\ cl_input = <<>> /\ cl_result = <<>>

NoResponse == [pending |-> TRUE]

AggregatorIdle ==
    /\ pc = "idle"
    /\ event = EmptyDict
    /\ results = [outposts |-> NoneDict, localzones |-> NoneDict, errors |-> <<>>]
    /\ invoked = <<>>
    /\ response = NoResponse
    /\ write = [called |-> FALSE]

LookupIdle ==
    /\ lk_pc = "idle"
    /\ lk_event = EmptyDict
    /\ lk_failing = 0
    /\ lk_response = NoResponse

\* ------------------------------------------------------------------------
\* Specification of one aggregate request
\* ------------------------------------------------------------------------
\* the events of an aggregate request: with a region, and without
Events == {EmptyDict, [region |-> "us-west-2"]}

Init ==
    /\ ClassifierIdle
    /\ LookupIdle
    /\ pc = "start"
    /\ event \in Events
    /\ results = [outposts |-> NoneDict, localzones |-> NoneDict, errors |-> <<>>]
    /\ invoked = <<>>
    /\ response = NoResponse
    /\ table = EmptyDict
    /\ write = [called |-> FALSE]

\* the message appended when the invocation of a collector fails
outposts_error(failure) ==
    CASE failure = "StatusCode" -> "Outposts lambda failed with status: 500"
      [] failure = "ClientError" -> "Error calling get_outposts_details"
      [] failure = "Exception" -> "Unexpected error calling get_outposts_details"

localzones_error(failure) ==
    CASE failure = "StatusCode" -> "Local zones lambda failed with status: 500"
      [] failure = "ClientError" -> "Error calling get_localzones_details"
      [] failure = "Exception" -> "Unexpected error calling get_localzones_details"

\* the first except block leaving the handler's invocations behind: the
\* second try block is skipped
InvokeOutpostsFails_skip ==
    /\ pc = "start"
    /\ \E failure \in InvokeFailures :
           results' = record_error(results, outposts_error(failure))
    /\ invoked' = Append(invoked, "get_outposts_details")
    /\ pc' = "localzones_called"
    /\ UNCHANGED <<event, response, table, write>>

\* the first try block: the invocation of get_outposts_details fails
InvokeOutpostsFails ==
    /\ pc = "start"
    /\ \E failure \in InvokeFailures :
           results' = record_error(results, outposts_error(failure))
    /\ invoked' = Append(invoked, "get_outposts_details")
    /\ pc' = "outposts_called"
    /\ UNCHANGED <<event, response, table, write>>

\* the first try block: get_outposts_details runs and its return value
\* comes back with StatusCode 200
InvokeOutpostsReturns ==
    /\ pc = "start"
    /\ \E ids \in Orderings(OutpostIds), api_fails \in BOOLEAN :
       \E assets \in [1..Len(ids) -> ProviderAssets],
          reject \in 0..Len(ids) :
           /\ api_fails => reject = 0
           /\ LET run == outposts_lambda_handler(event, table,
                              ProviderOutposts(ids, assets), api_fails, reject)
              IN  /\ results' = [results EXCEPT !.outposts = run.payload]
                  /\ table' = run.table
                  /\ write' = run.write
    /\ invoked' = Append(invoked, "get_outposts_details")
    /\ pc' = "outposts_called"
    /\ UNCHANGED <<event, response>>

\* the second try block: the invocation of get_localzones_details fails
InvokeLocalzonesFails ==
    /\ pc = "outposts_called"
    /\ \E failure \in InvokeFailures :
           results' = record_error(results, localzones_error(failure))
    /\ invoked' = Append(invoked, "get_localzones_details")
    /\ pc' = "localzones_called"
    /\ UNCHANGED <<event, response, table, write>>

\* the second try block: get_localzones_details runs and its return value
\* comes back with StatusCode 200
InvokeLocalzonesReturns ==
    /\ pc = "outposts_called"
    /\ \E names \in Orderings(ZoneNames), api_fails \in BOOLEAN :
       \E offered \in [1..Len(names) -> Offerings],
          reject \in 0..Len(names) :
           /\ api_fails => reject = 0
           /\ LET run == localzones_lambda_handler(event, table,
                              ProviderZones(names, offered), api_fails, reject)
              IN  /\ results' = [results EXCEPT !.localzones = run.payload]
                  /\ table' = run.table
                  /\ write' = run.write
    /\ invoked' = Append(invoked, "get_localzones_details")
    /\ pc' = "localzones_called"
    /\ UNCHANGED <<event, response>>

\* the rest of lambda_handler: it returns a response or raises
Respond ==
    /\ pc = "localzones_called"
    /\ response' = respond(results)
    /\ pc' = "done"
    /\ UNCHANGED <<event, results, invoked, table, write>>

Next ==
    \/ (InvokeOutpostsFails /\ UNCHANGED <<cl_vars, lk_vars>>)
    \/ (InvokeOutpostsReturns /\ UNCHANGED <<cl_vars, lk_vars>>)
    \/ (InvokeLocalzonesFails /\ UNCHANGED <<cl_vars, lk_vars>>)
    \/ (InvokeLocalzonesReturns /\ UNCHANGED <<cl_vars, lk_vars>>)
    \/ (Respond /\ UNCHANGED <<cl_vars, lk_vars>>)

Spec == Init /\ [][Next]_vars

\* ------------------------------------------------------------------------
\* Specification of one call of extract_instance_families
\* ------------------------------------------------------------------------
\* the instance type values of a list: str values and None
InstanceTypeValues == Strings(MaxIdLen) \cup {None}

ClassifyInit ==
    /\ AggregatorIdle
    /\ LookupIdle
    /\ table = EmptyDict
    /\ cl_pc = "call"
    /\ \E k \in 0..MaxTypes : cl_input \in [1..k -> InstanceTypeValues]
    /\ cl_result = <<>>

Classify ==
    /\ cl_pc = "call"
    /\ cl_pc' = "returned"
    /\ cl_result' = extract_instance_families(cl_input)
    /\ UNCHANGED cl_input
    /\ UNCHANGED <<agg_vars, table, lk_vars>>

ClassifyNext == Classify

SpecClassify == ClassifyInit /\ [][ClassifyNext]_vars

\* ------------------------------------------------------------------------
\* Specification of one Parent-Zone Lookup request
\* ------------------------------------------------------------------------
\* the tables the collectors leave: any of the zones and outposts of the
\* provider has its item or has none
StoredItem(edge_id) ==
    IF edge_id \in OutpostIds
    THEN outposts_item(edge_id,
             [AvailabilityZoneId |-> AvailabilityZoneIdOf[edge_id],
              SupportedHardwareType |-> "RACK",
              Servers |-> <<>>])
    ELSE LET z == CHOOSE n \in ZoneNames : ZoneIdOf[n] = edge_id
         IN  localzones_item([ZoneId |-> edge_id,
                              ParentAZ |-> ParentZoneIdOf[z],
                              InstanceTypes |-> <<>>])

StoredIds == {ZoneIdOf[z] : z \in ZoneNames} \cup OutpostIds

StoredTables ==
    {[k \in K |-> StoredItem(k)] : K \in SUBSET StoredIds}

\* the value of a parameter: an edge_id with an item, one without, or ""
ParameterValues == {"usw2-lax1-az1", "op-1", "does-not-exist", ""}

\* a parameter of the event, with or without its 'value'
Parameters ==
    {[name |-> "edge_id"]} \cup [name : {"edge_id"}, value : ParameterValues]

LookupEvents ==
    [agent : {"agent"}, actionGroup : {"edge"}, function : {"get_parent_az"},
     parameters : SeqUpTo(Parameters, MaxParams)]

LookupInit ==
    /\ ClassifierIdle
    /\ AggregatorIdle
    /\ table \in StoredTables
    /\ lk_pc = "request"
    /\ lk_event \in LookupEvents
    /\ lk_failing \in 0..2
    /\ lk_response = NoResponse

Lookup ==
    /\ lk_pc = "request"
    /\ lk_response' = lookup_lambda_handler(lk_event, table, lk_failing)
    /\ lk_pc' = "responded"
    /\ UNCHANGED <<lk_event, lk_failing, table>>
    /\ UNCHANGED <<cl_vars, agg_vars>>

LookupNext == Lookup

SpecLookup == LookupInit /\ [][LookupNext]_vars

\* ========================================================================
\* Properties
\* ========================================================================
\* the elements of a sequence
Range(q) == {q[i] : i \in 1..Len(q)}

\* plain string order, stated without recursion: a and b agree on a prefix
\* of length k, and then a ends or a has the smaller code point
PlainLess(a, b) ==
    \E k \in 0..Len(a) :
        /\ k <= Len(b)
        /\ \A i \in 1..k : a[i] = b[i]
        /\ \/ k = Len(a) /\ k < Len(b)
           \/ k < Len(a) /\ k < Len(b) /\ Ord[a[k+1]] < Ord[b[k+1]]

\* the positions of the dots of a str
Dots(x) == {i \in 1..Len(x) : x[i] = "."}

Min(S) == CHOOSE i \in S : \A j \in S : i <= j

\* the dot-separated part that follows the first dot of a str with a dot
SizeToken(x) ==
    LET d1 == Min(Dots(x))
        later == {i \in Dots(x) : i > d1}
        d2 == IF later = {} THEN Len(x) + 1 ELSE Min(later)
    IN  SubSeq(x, d1 + 1, d2 - 1)

\* a str with at least two dot-separated parts whose first character is ch
InFamily(x, ch) == x # None /\ Dots(x) # {} /\ x[1] = ch

\* the bucket letters in the order of the returned triple
BucketLetter == <<"c", "m", "r">>

\* C5: for every list of capacity-type identifiers, each of the three
\* returned sequences is strictly increasing in plain string order (so it is
\* sorted and duplicate-free), and the sequence of bucket c (m, r) holds
\* exactly the size tokens (the dot-separated part after the first dot) of
\* the identifiers with at least two parts whose first character is c (m, r).
C5_SortedExactBuckets ==
    cl_pc = "returned" =>
        \A b \in 1..3 :
            LET q == cl_result[b]
            IN  /\ \A i \in 1..(Len(q) - 1) : PlainLess(q[i], q[i+1])
                /\ Range(q) = {SizeToken(x) :
                                 x \in {y \in Range(cl_input) :
                                          InFamily(y, BucketLetter[b])}}

\* a list given out of order whose sizes sort as strings, not as numbers:
\* ["c.2", "c.12"] returns c_family = ["12", "2"]
C5_Witness ==
    /\ cl_pc = "returned"
    /\ cl_input = << <<"c", ".", "2">>, <<"c", ".", "1", "2">> >>
    /\ cl_result = << << <<"1", "2">>, <<"2">> >>, <<>>, <<>> >>

\* an identifier that is null, empty, without a dot, or whose first
\* character is none of c, m, r
Unclassified(x) ==
    \/ x = None
    \/ x = <<>>
    \/ Dots(x) = {}
    \/ x[1] \notin {"c", "m", "r"}

Classified(x) == ~Unclassified(x)

\* C6: an identifier whose first character is not c, m or r, or that is
\* malformed (no dot, empty, null), adds nothing to any bucket: the result
\* for a list equals the result for the list with such identifiers removed
\* (and is three empty sequences when nothing else is in the list).
C6_UnclassifiedIgnored ==
    cl_pc = "returned" =>
        /\ cl_result = extract_instance_families(SelectSeq(cl_input, Classified))
        /\ (\A x \in Range(cl_input) : Unclassified(x))
               => cl_result = << <<>>, <<>>, <<>> >>

\* a list holding a null and an identifier of another family next to a
\* classified one is classified as the classified one alone
C6_Witness ==
    /\ cl_pc = "returned"
    /\ Len(cl_input) = 2
    /\ Unclassified(cl_input[1])
    /\ cl_input[1] # None /\ Dots(cl_input[1]) # {}
    /\ Classified(cl_input[2])
    /\ cl_result # << <<>>, <<>>, <<>> >>
\* ------------------------------------------------------------------------
\* The aggregate request
\* ------------------------------------------------------------------------
\* the error entries that name the Extension Collector, and the Zone Collector
ExtensionErrors == {outposts_error(f) : f \in InvokeFailures}
ZoneErrors == {localzones_error(f) : f \in InvokeFailures}

\* a collector succeeded: its invocation returned its success payload
ExtensionSucceeded ==
    results.outposts # NoneDict /\ results.outposts.statusCode = 200
ZoneSucceeded ==
    results.localzones # NoneDict /\ results.localzones.statusCode = 200

\* the response is the answer document
IsAnswer ==
    /\ ~response.raised /\ response.statusCode = 200
    /\ DOMAIN response.body = {"answer"}

\* the response is a failure with a list of error strings
IsFailure ==
    /\ ~response.raised /\ response.statusCode = 500
    /\ "success" \in DOMAIN response.body /\ response.body.success = FALSE
    /\ "errors" \in DOMAIN response.body
    /\ "answer" \notin DOMAIN response.body

\* C1 (the claim as stated): when the Zone Collector succeeds and the
\* Extension Collector fails in any way (invocation raises, non-success
\* status, or the collector returns its own statusCode 500 error payload),
\* the response is a failure with exactly one error entry, which names the
\* Extension Collector, and carries no answer document and no zone entries.
C1_ExtensionFailureReported ==
    (pc = "done" /\ ZoneSucceeded /\ ~ExtensionSucceeded) =>
        /\ IsFailure
        /\ Len(response.body.errors) = 1
        /\ response.body.errors[1] \in ExtensionErrors

\* C2 (the claim as stated): whatever the two invocations brought, the
\* Aggregator returns the answer document or a failure with a list of error
\* strings, and no exception leaves lambda_handler.
C2_AlwaysStructuredResponse ==
    pc = "done" => (IsAnswer \/ IsFailure)

\* C3 (the claim as stated): the Zone Collector is invoked first and the
\* Extension Collector second, and a Zone Collector error entry precedes an
\* Extension Collector error entry.
C3_ZoneCollectorFirst ==
    /\ \A i \in 1..Len(invoked) :
          invoked[i] = <<"get_localzones_details", "get_outposts_details">>[i]
    /\ \A i, j \in 1..Len(results.errors) :
          (results.errors[i] \in ZoneErrors /\ results.errors[j] \in ExtensionErrors)
              => i < j

\* C3 (amended): the Extension Collector is invoked first and the Zone
\* Collector second, and the error list is in that invocation order: an
\* Extension Collector error entry precedes a Zone Collector error entry.
C3_ExtensionCollectorFirst ==
    /\ Len(invoked) <= 2
    /\ \A i \in 1..Len(invoked) :
          invoked[i] = <<"get_outposts_details", "get_localzones_details">>[i]
    /\ \A i, j \in 1..Len(results.errors) :
          (results.errors[i] \in ExtensionErrors /\ results.errors[j] \in ZoneErrors)
              => i < j
    /\ (pc = "done" /\ results.errors # <<>>) =>
          (IsFailure /\ response.body.errors = results.errors)

\* both invocations failed and the failure response lists both errors
C3_Witness ==
    /\ pc = "done"
    /\ IsFailure
    /\ Len(response.body.errors) = 2
    /\ response.body.errors[1] \in ExtensionErrors
    /\ response.body.errors[2] \in ZoneErrors

\* the number of invocations of a function
Invocations(name) == Cardinality({i \in 1..Len(invoked) : invoked[i] = name})

\* the number of error entries of a set
Entries(errs) ==
    Cardinality({i \in 1..Len(results.errors) : results.errors[i] \in errs})

\* C4: in every aggregate request both collectors are invoked exactly once,
\* whatever the first invocation brought, and each outcome is recorded on
\* its own: a collector has either its payload stored and no error entry, or
\* no payload and exactly one error entry.
C4_BothInvokedOnce ==
    /\ pc \in {"localzones_called", "done"} =>
          /\ Invocations("get_outposts_details") = 1
          /\ Invocations("get_localzones_details") = 1
          /\ Len(invoked) = 2
          /\ IF results.outposts = NoneDict
             THEN Entries(ExtensionErrors) = 1
             ELSE Entries(ExtensionErrors) = 0
          /\ IF results.localzones = NoneDict
             THEN Entries(ZoneErrors) = 1
             ELSE Entries(ZoneErrors) = 0
          /\ Len(results.errors) = Entries(ExtensionErrors) + Entries(ZoneErrors)

\* the first invocation failed and the second was made and succeeded
C4_Witness ==
    /\ pc = "done"
    /\ results.outposts = NoneDict
    /\ invoked = <<"get_outposts_details", "get_localzones_details">>
    /\ ZoneSucceeded
    /\ results.errors \in {<<e>> : e \in ExtensionErrors}

\* the racks the Extension Collector reported, and the zones the Zone
\* Collector reported
ReportedRacks ==
    IF ExtensionSucceeded THEN results.outposts.body.outposts ELSE <<>>
ReportedZones ==
    IF ZoneSucceeded THEN results.localzones.body.localZones ELSE <<>>

\* the concatenation of a sequence of sequences
RECURSIVE Flatten(_)
Flatten(qs) == IF qs = <<>> THEN <<>> ELSE Head(qs) \o Flatten(Tail(qs))

\* the capacity-type identifiers of all assets of a rack (an asset whose
\* list is null has none)
RackTypes(rack) ==
    Flatten([j \in 1..Len(rack.value.Servers) |->
                LET caps == rack.value.Servers[j].InstanceType
                IN  IF caps = NoneList THEN <<>>
                    ELSE [k \in 1..Len(caps) |-> caps[k].InstanceType]])

\* the three family sequences of an entry of the answer
Families(entry) == <<entry.c_family, entry.m_family, entry.r_family>>

\* C7 (the claim as stated): in an answer with racks reported, the one
\* extension entry has the edge_id and parent_az of the first rack and the
\* family sets of the pooled identifiers of all assets of all racks; with no
\* rack reported the entry is empty.
C7_PoolOfAllRacks ==
    (pc = "done" /\ IsAnswer) =>
        LET entry == response.body.answer.outposts
        IN  IF ReportedRacks = <<>> THEN entry = EmptyDict
            ELSE /\ entry.edge_id = ReportedRacks[1].key
                 /\ entry.parent_az = ReportedRacks[1].value.AvailabilityZone
                 /\ Families(entry) = extract_instance_families(
                        Flatten([i \in 1..Len(ReportedRacks) |->
                                    RackTypes(ReportedRacks[i])]))

\* C7 (amended): in an answer with racks reported, the one extension entry
\* has the edge_id and parent_az of the first rack and the family sets of
\* the identifiers of all assets of that first rack only; with no rack
\* reported the entry is empty.
C7_FirstRackOnly ==
    (pc = "done" /\ IsAnswer) =>
        LET entry == response.body.answer.outposts
        IN  IF ReportedRacks = <<>> THEN entry = EmptyDict
            ELSE /\ entry.edge_id = ReportedRacks[1].key
                 /\ entry.parent_az = ReportedRacks[1].value.AvailabilityZone
                 /\ Families(entry) = extract_instance_families(
                        RackTypes(ReportedRacks[1]))

\* an answer for two racks: the first has two assets of different families,
\* the second an asset, and the entry shows both families of the first rack
C7_Witness ==
    /\ pc = "done" /\ IsAnswer
    /\ Len(ReportedRacks) = 2
    /\ Len(ReportedRacks[1].value.Servers) = 2
    /\ RackTypes(ReportedRacks[2]) # <<>>
    /\ response.body.answer.outposts.edge_id = ReportedRacks[1].key
    /\ response.body.answer.outposts.c_family # <<>>
    /\ response.body.answer.outposts.m_family # <<>>

\* C8: in an answer the zone sequence has exactly one entry per zone the
\* Zone Collector reported, in the order it reported them, and each entry
\* carries that zone's identifier, parent region, parent zone and the family
\* sets classified from that zone's own capacity types.
C8_ZoneEntriesInOrder ==
    (pc = "done" /\ IsAnswer) =>
        LET entries == response.body.answer.public_local_zones
        IN  /\ Len(entries) = Len(ReportedZones)
            /\ \A i \in 1..Len(ReportedZones) :
                  /\ entries[i].edge_id = ReportedZones[i].key
                  /\ entries[i].parent_region = ReportedZones[i].value.RegionName
                  /\ entries[i].parent_az = ReportedZones[i].value.ParentAZ
                  /\ Families(entries[i]) = extract_instance_families(
                         ReportedZones[i].value.InstanceTypes)

\* an answer for two zones of different offerings, reported in an order
\* that is not the sorted one
C8_Witness ==
    /\ pc = "done" /\ IsAnswer
    /\ Len(ReportedZones) = 2
    /\ ReportedZones[1].key = "us-west-2-lax-1b"
    /\ response.body.answer.public_local_zones[1].edge_id = "us-west-2-lax-1b"
    /\ response.body.answer.public_local_zones[1].c_family # <<>>
    /\ response.body.answer.public_local_zones[2].m_family # <<>>

\* ------------------------------------------------------------------------
\* The catalog writer
\* ------------------------------------------------------------------------
\* C9 (the claim as stated): when the store rejects the write of a record,
\* the writer still submits every later record of the batch and returns the
\* count of the records it submitted.
C9_RejectionDoesNotBlock ==
    write.called =>
        /\ write.submitted = write.batch
        /\ ~write.raised
        /\ write.records_written = Len(write.submitted)

\* C9 (amended): when the store rejects the write of a record, the writer
\* submits no later record of the batch and returns no count: the rejection
\* leaves write_to_dynamo as an exception, and the records written before it
\* stay in the store. Without a rejection it submits every record and
\* returns their number.
C9_RejectionStopsBatch ==
    write.called =>
        IF write.reject = 0
        THEN /\ write.submitted = write.batch
             /\ ~write.raised
             /\ write.records_written = Len(write.batch)
        ELSE /\ write.submitted = SubSeq(write.batch, 1, write.reject)
             /\ write.raised
             /\ \A i \in 1..(write.reject - 1) : write.batch[i] \in DOMAIN table

\* the store rejected the first of two records: the second was not submitted
C9_Witness ==
    /\ write.called
    /\ Len(write.batch) = 2
    /\ write.reject = 1
    /\ write.submitted = <<write.batch[1]>>
    /\ write.raised
\* ------------------------------------------------------------------------
\* The Parent-Zone Lookup
\* ------------------------------------------------------------------------
\* the parameters of the lookup event, and the identifier parameter i names
\* (NoneName when it has no 'value')
LookupParameters == lk_event.parameters
Requested(i) == Get(LookupParameters[i], "value", NoneName)

\* the document of a lookup response that carries results, else EmptyDict
LookupResults(resp) ==
    IF ~resp.raised /\ "response" \in DOMAIN resp.value
    THEN resp.value.response.functionResponse.responseBody.TEXT.body
    ELSE EmptyDict

\* the results of a response report id as not found
ReportsNotFound(resp, id) ==
    \E k \in DOMAIN LookupResults(resp) :
        LookupResults(resp)[k] =
            [edge_id |-> id, parent_az |-> NoneName, found |-> FALSE]

\* C10 (the claim as stated): for every lookup request and every requested
\* identifier without a record, the lookup reports found=false with a null
\* parent zone for it, and never raises.
C10_EveryRequestReportsMiss ==
    lk_pc = "responded" =>
        \A i \in 1..Len(LookupParameters) :
            (~IsFalsyName(Requested(i)) /\ Requested(i) \notin DOMAIN table)
                => /\ ~lk_response.raised
                   /\ ReportsNotFound(lk_response, Requested(i))

\* ------------------------------------------------------------------------
\* The answer and the Catalog Store
\* ------------------------------------------------------------------------
\* what get_parent_az returns for edge_id when the store answers the query
LookupOf(edge_id) == get_parent_az(table, edge_id, FALSE)

\* edge_id is looked up as found, with parent zone parent_az, from the
\* record item
FoundAs(edge_id, item) ==
    /\ edge_id \in DOMAIN table
    /\ table[edge_id] = item
    /\ ~LookupOf(edge_id).raised
    /\ LookupOf(edge_id).value =
          [edge_id |-> edge_id, parent_az |-> item.parent_az, found |-> TRUE]

\* the extension entry of an answer names a rack, and the record the
\* Extension Collector wrote for that rack in this request is found under
\* the entry's edge_id
ExtensionEntryFound ==
    LET entry == response.body.answer.outposts
    IN  "edge_id" \in DOMAIN entry =>
            FoundAs(entry.edge_id,
                    outposts_item(ReportedRacks[1].key, ReportedRacks[1].value))

\* every zone entry of an answer: the record the Zone Collector wrote for
\* that zone in this request is found under the entry's edge_id
ZoneEntriesFound ==
    LET entries == response.body.answer.public_local_zones
    IN  \A i \in 1..Len(entries) :
            FoundAs(entries[i].edge_id, localzones_item(ReportedZones[i].value))

\* C11 (the claim as stated): after a successful aggregate request, every
\* edge_id of the answer (each zone entry and the extension entry) is the
\* key of a record of the Catalog Store written by the same collector run,
\* and the Parent-Zone Lookup of that edge_id returns found=true with the
\* parent zone recorded for that location.
C11_AnswerIdsAreStoreKeys ==
    (pc = "done" /\ IsAnswer) => (ExtensionEntryFound /\ ZoneEntriesFound)
====
